---- MODULE Spec2Model ----
(***************************************************************************)
(* The currently_listening server (server/main.go): the store of the      *)
(* currently playing song, the /set-listening and /clear-listening        *)
(* handlers, and the websocket sessions the handlers broadcast to.        *)
(*                                                                         *)
(* net/http runs every request in its own goroutine, so a handler is a    *)
(* process with a program counter.  The handlers read the three store     *)
(* variables without holding the lock and write them one after the other  *)
(* while holding it; every such access is a step of its own.  The steps   *)
(* of a handler that touch nothing shared belong to the step before them. *)
(***************************************************************************)
EXTENDS Integers, Sequences, FiniteSets, TLC

\* ---------------------------------------------------------------- bounds
MaxTime == 2
MaxInbox == 2
MaxRequests == 2
MaxPolls == 3

Times == 1..MaxTime
Handlers == {1, 2}
Sessions == {"s1", "s2"}

\* ------------------------------------------------------------- constants
ImagePrefixLen == 10

StatusOK == "200"
StatusBadRequest == "400"
StatusUnauthorized == "401"
StatusMethodNotAllowed == "405"
StatusInternalServerError == "500"
\* the handler panicked: net/http recovers, nothing is written, the
\* connection is closed
Aborted == "aborted"
\* the handler has not answered yet
Pending == "pending"

\* the --password flag of the server
Password == "secret"

\* --------------------------------------------------------------- pointers
\* a Go pointer is <<>> (nil) or <<v>>
Nil == <<>>
Ref(v) == <<v>>
Deref(p) == p[1]

\* ------------------------------------------------------------ JSON bodies
\* a base64 image is a sequence of characters
LongImage == [i \in 1..12 |-> "x"]
NoImage == <<>>

\* a JSON object is a function from some of the keys to values; a body is
\* <<>> when it is not JSON at all
Malformed == <<>>

SetBodies ==
    {Malformed}
    \cup { <<[artist |-> "a1", album |-> "b1", title |-> "t1",
              started_at |-> t, base64_image |-> LongImage]>> : t \in Times }
    \cup { <<[artist |-> "a2", album |-> "b2", title |-> "t2",
              started_at |-> t]>> : t \in Times }

ClearBodies ==
    {Malformed} \cup { <<[ended_at |-> t]>> : t \in Times }

SetPath == "/set-listening"
ClearPath == "/clear-listening"

\* the requests the clients send: the well-formed ones, and one of each
\* kind of ill-formed request shape
Requests ==
    [path : {SetPath}, method : {"POST"}, password : {Password}, body : SetBodies]
    \cup [path : {ClearPath}, method : {"POST"}, password : {Password}, body : ClearBodies]
    \cup [path : {SetPath}, method : {"GET"}, password : {Password},
          body : {Malformed, <<[artist |-> "a2", album |-> "b2", title |-> "t2", started_at |-> MaxTime]>>}]
    \cup [path : {ClearPath}, method : {"POST"}, password : {"wrong", ""},
          body : {<<[ended_at |-> MaxTime]>>}]

Field(obj, key, zero) == IF key \in DOMAIN obj THEN obj[key] ELSE zero

\* json.NewDecoder(r.Body).Decode(&cur): absent keys keep the zero value
DecodeSetListening(obj) ==
    [Artist |-> Field(obj, "artist", ""),
     Album |-> Field(obj, "album", ""),
     Title |-> Field(obj, "title", ""),
     StartedAt |-> Field(obj, "started_at", 0),
     Base64Image |-> Field(obj, "base64_image", NoImage)]

DecodeClearListeningWrongKey(obj) ==
    [EndedAt |-> Field(obj, "started_at", 0)]

DecodeClearListening(obj) ==
    [EndedAt |-> Field(obj, "ended_at", 0)]

Decode(path, obj) ==
    IF path = SetPath THEN DecodeSetListening(obj) ELSE DecodeClearListening(obj)

\* the event time a decoded body carries
EventTime(path, c) == IF path = SetPath THEN c.StartedAt ELSE c.EndedAt

\* json.Marshal of a *SetListening
MarshalSong(p) ==
    IF p = Nil THEN Nil
    ELSE Ref([artist |-> Deref(p).Artist, album |-> Deref(p).Album,
              title |-> Deref(p).Title, started_at |-> Deref(p).StartedAt,
              base64_image |-> Deref(p).Base64Image])

\* json.Marshal of the WebsocketResponse around a CurrentlyListeningResponse
CurrentlyListeningJSON(song, playing) ==
    [msg_type |-> "currently-listening",
     data |-> [song |-> MarshalSong(song), playing |-> playing]]

\* ----------------------------------------------------------------- state
VARIABLES
    currentlyListeningSong,   \* *SetListening: Nil or Ref(record)
    currentTimeStamp,         \* *int64: Nil or Ref(time)
    isCurrentlyPlaying,       \* bool
    lock,                     \* sync.RWMutex: 0 when free, else the handler holding it
    sessions,                 \* the websocket sessions melody has registered
    inbox,                    \* per session, the frames written to it since it connected
    pc,                       \* per handler goroutine, where it is
    req,                      \* per handler, the request it serves
    cur,                      \* per handler, the decoded body: Nil before Decode
    data,                     \* per handler, the CurrentlyListeningResponse being built
    sendBody,                 \* per handler, the bytes currentlyListeningJSON returned
    status,                   \* per handler, the response of the request
    writes,                   \* per handler, the store writes this request has made
    sent,                     \* per handler, the Broadcast calls this request has made
    pre,                      \* per handler, the store before the request and the
                              \* requests it overlaps with, where that is observed
    lastSent,                 \* the latest request with an event time of a client
                              \* that sends its events in order; Nil before the first
    nreq,                     \* the requests received while requests may overlap
    wpc,                      \* per session, where its HandleMessage callback is
    wdata,                    \* per session, the CurrentlyListeningResponse being built
    wbody,                    \* per session, the bytes currentlyListeningJSON returned
    wdirty,                   \* the sessions whose callback has run across a store write
    stray,                    \* per session, the frames it had received when its
                              \* latest unknown message was handled; Nil before
    currentlyPlaying,         \* listenbrainz client: the *SetListening it last set
    lpc,                      \* listenbrainz client: where pollListenbrainz is
    lresp,                    \* listenbrainz client: what the poll of this round got
    out,                      \* listenbrainz client: the request serverRequest sends
    clock,                    \* time.Now().Unix() of the listenbrainz client
    calls,                    \* the calls the listenbrainz client has made
    heard,                    \* the payloads the listenbrainz client has decoded
    npolls                    \* the polls the listenbrainz client has made

vars == <<currentlyListeningSong, currentTimeStamp, isCurrentlyPlaying, lock,
          sessions, inbox, pc, req, cur, data, sendBody, status, writes, sent,
          pre, lastSent, nreq, wpc, wdata, wbody, wdirty, stray,
          currentlyPlaying, lpc, lresp, out, clock, calls, heard, npolls>>

store == <<currentlyListeningSong, currentTimeStamp, isCurrentlyPlaying>>
locals == <<req, cur, data, sendBody>>
hub == <<sessions, inbox>>
effects == <<writes, sent, pre>>
client == <<lastSent, nreq>>
socket == <<wpc, wdata, wbody, wdirty, stray>>
loop == <<currentlyPlaying, lpc, lresp, out, clock, calls, heard, npolls>>

\* the store as one value
Snapshot ==
    [song |-> currentlyListeningSong, ts |-> currentTimeStamp,
     playing |-> isCurrentlyPlaying]

EmptyStore == [song |-> Nil, ts |-> Nil, playing |-> FALSE]

NoRequest == [path |-> "", method |-> "", password |-> "", body |-> Malformed]

Init ==
    /\ currentlyListeningSong = Nil
    /\ currentTimeStamp = Nil
    /\ isCurrentlyPlaying = FALSE
    /\ lock = 0
    /\ sessions = {}
    /\ inbox = [s \in Sessions |-> <<>>]
    /\ pc = [h \in Handlers |-> "idle"]
    /\ req = [h \in Handlers |-> NoRequest]
    /\ cur = [h \in Handlers |-> Nil]
    /\ data = [h \in Handlers |-> Nil]
    /\ sendBody = [h \in Handlers |-> Nil]
    /\ status = [h \in Handlers |-> Pending]
    /\ writes = [h \in Handlers |-> 0]
    /\ sent = [h \in Handlers |-> 0]
    /\ pre = [h \in Handlers |-> EmptyStore]
    /\ lastSent = Nil
    /\ nreq = 0
    /\ wpc = [s \in Sessions |-> "idle"]
    /\ wdata = [s \in Sessions |-> Nil]
    /\ wbody = [s \in Sessions |-> Nil]
    /\ wdirty = {}
    /\ stray = [s \in Sessions |-> Nil]
    /\ currentlyPlaying = Nil
    /\ lpc = "poll"
    /\ lresp = Nil
    /\ out = Nil
    /\ clock = 1
    /\ calls = <<>>
    /\ heard = <<>>
    /\ npolls = 0

\* ------------------------------------------------------- request checks
\* authdPost: "" when the request passes, else the status it is refused with
AuthdPostNoPassword(r) ==
    IF r.method # "POST" THEN StatusMethodNotAllowed ELSE ""

AuthdPost(r) ==
    IF r.method # "POST" THEN StatusMethodNotAllowed
    ELSE IF r.password # Password THEN StatusUnauthorized
    ELSE ""

\* err != nil after json.NewDecoder(r.Body).Decode(&cur)
DecodeFails(r) == r.body = Malformed

\* currentlyListeningSong != nil
SongSetAlways(song) == TRUE

SongSet(song) == song # Nil

\* cur.StartedAt < *currentTimeStamp, cur.EndedAt < *currentTimeStamp
OlderOrEqual(t, ts) == ts # Nil /\ t <= Deref(ts)

Older(t, ts) == ts # Nil /\ t < Deref(ts)

\* the first condition a handler evaluates after Decode: /set-listening
\* starts with the song, /clear-listening with the timestamp
FirstCheckSong(path) == "checkSong"

FirstCheck(path) == IF path = SetPath THEN "checkSong" ELSE "checkTime"

\* what the locked writes of a handler leave in the store
Written(path, c) ==
    IF path = SetPath
    THEN [song |-> Ref(c), ts |-> Ref(c.StartedAt), playing |-> TRUE]
    ELSE [song |-> Nil, ts |-> Ref(c.EndedAt), playing |-> FALSE]

\* cur.Base64Image[0:10] panics on a shorter string
SliceInRange(c) == Len(c.Base64Image) >= ImagePrefixLen

\* melody's Broadcast: the frame is written to every registered session
BroadcastToOne(inb, registered, frame) ==
    [s \in Sessions |->
        IF registered # {} /\ s = CHOOSE x \in registered : TRUE
        THEN Append(inb[s], frame) ELSE inb[s]]

Broadcast(inb, registered, frame) ==
    [s \in Sessions |-> IF s \in registered THEN Append(inb[s], frame) ELSE inb[s]]

\* the request reaches the staleness check: it carries an event time
CarriesTime(r) == AuthdPost(r) = "" /\ ~DecodeFails(r)

TimeOf(r) == EventTime(r.path, Decode(r.path, Deref(r.body)))

\* a handler run alone from arrival to return, as a function of the store
Handle(S, r) ==
    IF ~CarriesTime(r) THEN S
    ELSE LET c == Decode(r.path, Deref(r.body))
             stale == IF r.path = SetPath
                      THEN SongSet(S.song) /\ Older(c.StartedAt, S.ts)
                      ELSE Older(c.EndedAt, S.ts)
         IN  IF stale THEN S ELSE Written(r.path, c)

\* -------------------------------------------------------------- handlers
Busy == {h \in Handlers : pc[h] \notin {"idle", "done"}}

\* the sessions whose HandleMessage callback is running
Pulling == {s \in Sessions : wpc[s] # "idle"}

\* the frames a session is still to get from what is running
Due(s) == Cardinality(Busy) + (IF s \in Pulling THEN 1 ELSE 0)

\* every registered session has room for the frames of what is running
\* and of one more
Room == \A s \in sessions : Len(inbox[s]) + Due(s) < MaxInbox

\* a store write is seen by every callback that is running
Overwrite == wdirty' = wdirty \cup Pulling /\ UNCHANGED <<wpc, wdata, wbody, stray>>


\* the store before the requests that are running: the store itself when
\* none is, else what it was when the first of them arrived
Before == IF Busy = {} THEN Snapshot ELSE pre[CHOOSE g \in Busy : TRUE]

\* a request arrives, net/http starts a goroutine for it (the first free
\* one), and the handler runs up to its first read of the store:
\* authdPost, then Decode
Arrive(h, r, before) ==
    /\ pc[h] = "idle"
    /\ \A g \in Handlers : g < h => pc[g] # "idle"
    /\ Room
    /\ req' = [req EXCEPT ![h] = r]
    /\ pre' = [pre EXCEPT ![h] = before]
    /\ IF AuthdPost(r) # ""
       THEN /\ status' = [status EXCEPT ![h] = AuthdPost(r)]
            /\ pc' = [pc EXCEPT ![h] = "done"]
            /\ UNCHANGED cur
       ELSE IF DecodeFails(r)
       THEN /\ status' = [status EXCEPT ![h] = StatusInternalServerError]
            /\ pc' = [pc EXCEPT ![h] = "done"]
            /\ UNCHANGED cur
       ELSE /\ cur' = [cur EXCEPT ![h] = Ref(Decode(r.path, Deref(r.body)))]
            /\ pc' = [pc EXCEPT ![h] = FirstCheck(r.path)]
            /\ UNCHANGED status
    /\ UNCHANGED <<store, lock, hub, data, sendBody, writes, sent, socket>>

\* requests arrive at any time, MaxRequests of them
Receive(h, r) ==
    /\ nreq < MaxRequests
    /\ Arrive(h, r, EmptyStore)
    /\ nreq' = nreq + 1
    /\ UNCHANGED <<lastSent, loop>>

\* the same, with the store before the requests observed
ReceiveRace(h, r) ==
    /\ nreq < MaxRequests
    /\ Arrive(h, r, Before)
    /\ nreq' = nreq + 1
    /\ UNCHANGED <<lastSent, loop>>

\* /set-listening: currentlyListeningSong != nil && ..., read without the lock
CheckSong(h) ==
    /\ pc[h] = "checkSong"
    /\ pc' = [pc EXCEPT ![h] =
                IF SongSet(currentlyListeningSong) THEN "checkTime" ELSE "lock"]
    /\ UNCHANGED <<store, lock, hub, locals, status, effects, client, loop, socket>>

\* currentTimeStamp != nil && cur.StartedAt < *currentTimeStamp (EndedAt for
\* /clear-listening), read without the lock; 400 when it holds
CheckTime(h) ==
    /\ pc[h] = "checkTime"
    /\ IF Older(EventTime(req[h].path, Deref(cur[h])), currentTimeStamp)
       THEN /\ pc' = [pc EXCEPT ![h] = "done"]
            /\ status' = [status EXCEPT ![h] = StatusBadRequest]
       ELSE /\ pc' = [pc EXCEPT ![h] = "lock"]
            /\ UNCHANGED status
    /\ UNCHANGED <<store, lock, hub, locals, effects, client, loop, socket>>

\* lock.Lock(); currentlyListeningSong = &cur  /  = nil
WriteSong(h) ==
    /\ pc[h] = "lock"
    /\ lock = 0
    /\ lock' = h
    /\ currentlyListeningSong' = Written(req[h].path, Deref(cur[h])).song
    /\ writes' = [writes EXCEPT ![h] = @ + 1]
    /\ pc' = [pc EXCEPT ![h] = "writeTime"]
    /\ UNCHANGED <<currentTimeStamp, isCurrentlyPlaying, hub, locals, status,
                   sent, pre, client, loop>>
    /\ Overwrite

\* currentTimeStamp = &cur.StartedAt  /  = &cur.EndedAt
WriteTime(h) ==
    /\ pc[h] = "writeTime"
    /\ currentTimeStamp' = Written(req[h].path, Deref(cur[h])).ts
    /\ writes' = [writes EXCEPT ![h] = @ + 1]
    /\ pc' = [pc EXCEPT ![h] = "writePlaying"]
    /\ UNCHANGED <<currentlyListeningSong, isCurrentlyPlaying, lock, hub, locals,
                   status, sent, pre, client, loop>>
    /\ Overwrite

\* lock.Unlock() of the handler that holds the lock: the lock is free
UnlockNever(h) == h

Unlock(h) == 0

\* isCurrentlyPlaying = true  /  = false; lock.Unlock()
WritePlaying(h) ==
    /\ pc[h] = "writePlaying"
    /\ isCurrentlyPlaying' = Written(req[h].path, Deref(cur[h])).playing
    /\ lock' = Unlock(h)
    /\ writes' = [writes EXCEPT ![h] = @ + 1]
    /\ pc' = [pc EXCEPT ![h] = "readSong"]
    /\ UNCHANGED <<currentlyListeningSong, currentTimeStamp, hub, locals, status,
                   sent, pre, client, loop>>
    /\ Overwrite

\* currentlyListeningJSON: Song: currentlyListeningSong, read without the lock
ReadSong(h) ==
    /\ pc[h] = "readSong"
    /\ data' = [data EXCEPT ![h] = Ref(currentlyListeningSong)]
    /\ pc' = [pc EXCEPT ![h] = "readPlaying"]
    /\ UNCHANGED <<store, lock, hub, req, cur, sendBody, status, effects, client, loop, socket>>

\* currentlyListeningJSON: Playing: isCurrentlyPlaying, read without the
\* lock, then json.Marshal
ReadPlaying(h) ==
    /\ pc[h] = "readPlaying"
    /\ sendBody' = [sendBody EXCEPT ![h] =
                      Ref(CurrentlyListeningJSON(Deref(data[h]), isCurrentlyPlaying))]
    /\ data' = [data EXCEPT ![h] = Nil]
    /\ pc' = [pc EXCEPT ![h] = "broadcast"]
    /\ UNCHANGED <<store, lock, hub, req, cur, status, effects, client, loop, socket>>

\* m.Broadcast(sendBody), then the success message; /set-listening formats
\* cur.Base64Image[0:10] into it
BroadcastRespond(h) ==
    /\ pc[h] = "broadcast"
    /\ inbox' = Broadcast(inbox, sessions, Deref(sendBody[h]))
    /\ sent' = [sent EXCEPT ![h] = @ + 1]
    /\ status' = [status EXCEPT ![h] =
                    IF req[h].path = SetPath /\ ~SliceInRange(Deref(cur[h]))
                    THEN Aborted ELSE StatusOK]
    /\ pc' = [pc EXCEPT ![h] = "done"]
    /\ UNCHANGED <<store, lock, sessions, locals, writes, pre, client, loop, socket>>

\* the handler returns and its goroutine ends
Return(h) ==
    /\ pc[h] = "done"
    /\ pc' = [pc EXCEPT ![h] = "idle"]
    /\ req' = [req EXCEPT ![h] = NoRequest]
    /\ cur' = [cur EXCEPT ![h] = Nil]
    /\ sendBody' = [sendBody EXCEPT ![h] = Nil]
    /\ status' = [status EXCEPT ![h] = Pending]
    /\ writes' = [writes EXCEPT ![h] = 0]
    /\ sent' = [sent EXCEPT ![h] = 0]
    /\ pre' = [pre EXCEPT ![h] = EmptyStore]
    /\ UNCHANGED <<store, lock, hub, data, client, loop, socket>>

\* ------------------------------------------------------------ websockets
\* HandleConnect: the frames the callback writes to the new session; it
\* logs the address and writes none
HandleConnectReplay(s) ==
    <<CurrentlyListeningJSON(currentlyListeningSong, isCurrentlyPlaying)>>

HandleConnect(s) == <<>>

\* /ws: melody registers the session and runs HandleConnect
Connect(s) ==
    /\ s \notin sessions
    /\ sessions' = sessions \cup {s}
    /\ inbox' = [inbox EXCEPT ![s] = HandleConnect(s)]
    /\ UNCHANGED <<store, lock, pc, locals, status, effects, client, loop, socket>>

\* the connection closes: melody unregisters the session
Disconnect(s) ==
    /\ s \in sessions
    /\ sessions' = sessions \ {s}
    /\ inbox' = [inbox EXCEPT ![s] = <<>>]
    /\ wpc' = [wpc EXCEPT ![s] = "idle"]
    /\ wdata' = [wdata EXCEPT ![s] = Nil]
    /\ wbody' = [wbody EXCEPT ![s] = Nil]
    /\ wdirty' = wdirty \ {s}
    /\ stray' = [stray EXCEPT ![s] = Nil]
    /\ UNCHANGED <<store, lock, pc, locals, status, effects, client, loop>>

\* json.Marshal of the WebsocketResponse of a pong
PongJSON == [msg_type |-> "pong", data |-> Nil]

\* s.Write(frame): the frame is written to the session of the callback
WriteToAll(inb, s, frame) ==
    [t \in Sessions |-> IF t \in sessions THEN Append(inb[t], frame) ELSE inb[t]]

Write(inb, s, frame) == [inb EXCEPT ![s] = Append(@, frame)]

\* HandleMessage, case "currently-listening": melody runs the callback in
\* the goroutine of the session; currentlyListeningJSON reads
\* currentlyListeningSong without the lock
PullSong(s) ==
    /\ s \in sessions
    /\ wpc[s] = "idle"
    /\ Len(inbox[s]) + Due(s) < MaxInbox
    /\ wdata' = [wdata EXCEPT ![s] = Ref(currentlyListeningSong)]
    /\ wpc' = [wpc EXCEPT ![s] = "readPlaying"]
    /\ wdirty' = wdirty \ {s}
    /\ UNCHANGED <<store, lock, hub, pc, locals, status, effects, client, loop, wbody, stray>>

\* currentlyListeningJSON: isCurrentlyPlaying, read without the lock, then
\* json.Marshal
PullPlaying(s) ==
    /\ wpc[s] = "readPlaying"
    /\ wbody' = [wbody EXCEPT ![s] =
                    Ref(CurrentlyListeningJSON(Deref(wdata[s]), isCurrentlyPlaying))]
    /\ wdata' = [wdata EXCEPT ![s] = Nil]
    /\ wpc' = [wpc EXCEPT ![s] = "write"]
    /\ UNCHANGED <<store, lock, hub, pc, locals, status, effects, client, loop, wdirty, stray>>

\* s.Write(cur)
PullWrite(s) ==
    /\ wpc[s] = "write"
    /\ inbox' = Write(inbox, s, Deref(wbody[s]))
    /\ wbody' = [wbody EXCEPT ![s] = Nil]
    /\ wpc' = [wpc EXCEPT ![s] = "idle"]
    /\ wdirty' = wdirty \ {s}
    /\ UNCHANGED <<store, lock, sessions, pc, locals, status, effects, client, loop, wdata, stray>>

\* HandleMessage, case "ping": a pong to the session of the callback
Ping(s) ==
    /\ s \in sessions
    /\ wpc[s] = "idle"
    /\ Len(inbox[s]) + Due(s) < MaxInbox
    /\ inbox' = Write(inbox, s, PongJSON)
    /\ UNCHANGED <<store, lock, sessions, pc, locals, status, effects, client, loop, socket>>

\* HandleMessage, default case: the frames of the sessions after the
\* message was printed; nothing is written
DefaultAnswers(inb, s) == Write(inb, s, PongJSON)

Default(inb, s) == inb

\* HandleMessage, default: a message other than "currently-listening"
\* and "ping"
Unknown(s) ==
    /\ s \in sessions
    /\ wpc[s] = "idle"
    /\ stray' = [stray EXCEPT ![s] = Ref(Len(inbox[s]))]
    /\ inbox' = Default(inbox, s)
    /\ UNCHANGED <<store, lock, sessions, pc, locals, status, effects, client, loop,
                   wpc, wdata, wbody, wdirty>>

Message(s) ==
    \/ PullSong(s)
    \/ PullPlaying(s)
    \/ PullWrite(s)
    \/ Ping(s)

\* ---------------------------------------------------------- specification
Work(h) ==
    \/ CheckSong(h)
    \/ CheckTime(h)
    \/ WriteSong(h)
    \/ WriteTime(h)
    \/ WritePlaying(h)
    \/ ReadSong(h)
    \/ ReadPlaying(h)
    \/ BroadcastRespond(h)

Step(h) ==
    \/ Work(h)
    \/ Return(h)

Next ==
    \/ \E h \in Handlers, r \in Requests : Receive(h, r)
    \/ \E h \in Handlers : Step(h)
    \/ \E s \in Sessions : Connect(s)
    \/ \E s \in Sessions : Disconnect(s)

Spec == Init /\ [][Next]_vars

\* the handlers alone, no websocket session ever opened
NextRace ==
    \/ \E h \in Handlers, r \in Requests : ReceiveRace(h, r)
    \/ \E h \in Handlers : Step(h)

SpecRace == Init /\ [][NextRace]_vars

\* the requests are handled one after the other: a request arrives only
\* when no handler is running
Quiet == \A h \in Handlers : pc[h] = "idle"

ReceiveSeq(h, r) == Quiet /\ Arrive(h, r, Snapshot) /\ UNCHANGED <<client, loop>>

NextSeq ==
    \/ \E h \in Handlers, r \in Requests : ReceiveSeq(h, r)
    \/ \E h \in Handlers : Step(h)
    \/ \E s \in Sessions : Connect(s)
    \/ \E s \in Sessions : Disconnect(s)

SpecSeq == Init /\ [][NextSeq]_vars

\* the requests of a producer that sends well-formed events, each set
\* with an image long enough for the success message
Complete ==
    {r \in Requests :
        /\ CarriesTime(r)
        /\ r.path = SetPath => SliceInRange(Decode(r.path, Deref(r.body)))}

\* such requests handled one after the other, with the sessions sending
\* their messages at any time
NextWs ==
    \/ \E h \in Handlers, r \in Complete : ReceiveSeq(h, r)
    \/ \E h \in Handlers : Step(h)
    \/ \E s \in Sessions : Connect(s)
    \/ \E s \in Sessions : Disconnect(s)
    \/ \E s \in Sessions : Message(s)

SpecWs == Init /\ [][NextWs]_vars

\* such requests arriving at any time, MaxRequests of them, and handled
\* concurrently, with sessions opening and closing at any time
NextHub ==
    \/ \E h \in Handlers, r \in Complete : Receive(h, r)
    \/ \E h \in Handlers : Step(h)
    \/ \E s \in Sessions : Connect(s)
    \/ \E s \in Sessions : Disconnect(s)

SpecHub == Init /\ [][NextHub]_vars

\* such requests handled one after the other, with the sessions sending
\* pings and messages the server does not know at any time
NextMsg ==
    \/ \E h \in Handlers, r \in Complete : ReceiveSeq(h, r)
    \/ \E h \in Handlers : Step(h)
    \/ \E s \in Sessions : Connect(s)
    \/ \E s \in Sessions : Disconnect(s)
    \/ \E s \in Sessions : Ping(s)
    \/ \E s \in Sessions : Unknown(s)

SpecMsg == Init /\ [][NextMsg]_vars

\* the requests are handled one after the other and the event times of
\* the requests never decrease
ReceiveInOrder(h, r) ==
    /\ Quiet
    /\ IF CarriesTime(r)
       THEN /\ IF lastSent = Nil THEN TRUE ELSE TimeOf(r) >= TimeOf(Deref(lastSent))
            /\ lastSent' = Ref(r)
       ELSE UNCHANGED lastSent
    /\ Arrive(h, r, Snapshot)
    /\ UNCHANGED <<nreq, loop>>

NextInOrder ==
    \/ \E h \in Handlers, r \in Requests : ReceiveInOrder(h, r)
    \/ \E h \in Handlers : Step(h)
    \/ \E s \in Sessions : Connect(s)
    \/ \E s \in Sessions : Disconnect(s)

SpecInOrder == Init /\ [][NextInOrder]_vars

\* ---------------------------------------------------- listenbrainz client
\* what playing-now lists: a ListenBrainzListen
Listen(artist, release, track) ==
    [track_metadata |->
        [artist_name |-> artist, track_name |-> track, release_name |-> release]]

\* a track, the next title of the same release, and a track of another
Listens == {Listen("a1", "b1", "t1"), Listen("a1", "b1", "t3"), Listen("a2", "b2", "t2")}

\* the ListenBrainzPayload of a response: nothing listed, one listen
\* playing, and one listen with playing_now or count saying otherwise
Payloads ==
    [playing_now : {TRUE}, count : {0}, listens : {<<>>}]
    \cup [playing_now : {TRUE}, count : {1}, listens : {<<l>> : l \in Listens}]
    \cup [playing_now : {FALSE}, count : {1}, listens : {<<Listen("a1", "b1", "t1")>>}]
    \cup [playing_now : {TRUE}, count : {0}, listens : {<<Listen("a1", "b1", "t1")>>}]

\* what an error body of ListenBrainz decodes to: no field matches
ZeroPayload == [playing_now |-> FALSE, count |-> 0, listens |-> <<>>]

\* what http.Get(url) and the decoding give: a transport error, a status
\* other than 200 with its error body, a body that does not decode (Decode
\* leaves the zero value behind), the JSON null, a payload
Samples ==
    [kind : {"error", "null"}]
    \cup [kind : {"status", "garbage"}, payload : {ZeroPayload}]
    \cup [kind : {"payload"}, payload : Payloads]

\* err != nil after http.Get, or lresp.StatusCode != 200
FetchFailsOnError(x) == x.kind = "error"

FetchFails(x) == x.kind \in {"error", "status"}

\* Decode fails, or leaves listenbrainzResponse nil: log.Fatalf
UndecodableNullOnly(x) == x.kind = "null"

Undecodable(x) == x.kind \in {"garbage", "null"}

\* len(p.Payload.Listens) == 0
NoSongPlayingUnlessPlaying(p) == Len(p.listens) = 0 \/ ~p.playing_now \/ p.count = 0

NoSongPlaying(p) == Len(p.listens) = 0

CurrentlyPlaying(p) ==
    IF p.count = 0 THEN Nil
    ELSE IF Len(p.listens) > 0 /\ p.playing_now THEN Ref(p.listens[1])
    ELSE Nil

ListenChangedAlways(c, l) == TRUE

ListenChangedAny(c, l) ==
    \/ c.Artist # l.track_metadata.artist_name
    \/ c.Album # l.track_metadata.release_name
    \/ c.Title # l.track_metadata.track_name

ListenChanged(c, l) ==
    /\ c.Artist # l.track_metadata.artist_name
    /\ c.Album # l.track_metadata.release_name
    /\ c.Title # l.track_metadata.track_name

\* the SetListening the client builds of a listen at time t; no image
NewListening(l, t) ==
    [Artist |-> l.track_metadata.artist_name,
     Album |-> l.track_metadata.release_name,
     Title |-> l.track_metadata.track_name,
     StartedAt |-> t,
     Base64Image |-> NoImage]

\* the request serverRequest builds of a marshalled body and a path
ServerRequest(body, path) ==
    [path |-> path, method |-> "POST", password |-> Password, body |-> body]

SetRequest(c) == ServerRequest(MarshalSong(Ref(c)), SetPath)

ClearRequest(t) == ServerRequest(<<[ended_at |-> t]>>, ClearPath)

\* a request as a call: its path and, of a set, the track
Call(r) ==
    IF r.path = SetPath
    THEN <<r.path, Deref(r.body).artist, Deref(r.body).album, Deref(r.body).title>>
    ELSE <<r.path>>

LoopRequests ==
    {SetRequest(NewListening(l, t)) : l \in Listens, t \in Times}
    \cup {ClearRequest(t) : t \in Times}

\* update: a listen is playing and the client has set none, or another
Update(p) ==
    /\ CurrentlyPlaying(p) # Nil
    /\ IF currentlyPlaying = Nil THEN TRUE
       ELSE ListenChanged(Deref(currentlyPlaying), Deref(CurrentlyPlaying(p)))

\* what one round of the for loop decides, up to its serverRequest or its
\* sleep
Round(x) ==
    IF FetchFails(x)
    THEN /\ lpc' = "sleep"
         /\ UNCHANGED <<currentlyPlaying, out>>
    ELSE IF Undecodable(x)
    THEN /\ lpc' = "exited"
         /\ UNCHANGED <<currentlyPlaying, out>>
    ELSE IF NoSongPlaying(x.payload) /\ currentlyPlaying # Nil
    THEN /\ out' = Ref(ClearRequest(clock))
         /\ lpc' = "send"
         /\ UNCHANGED currentlyPlaying
    ELSE IF Update(x.payload)
    THEN /\ currentlyPlaying' =
               Ref(NewListening(Deref(CurrentlyPlaying(x.payload)), clock))
         /\ out' = Ref(SetRequest(
               NewListening(Deref(CurrentlyPlaying(x.payload)), clock)))
         /\ lpc' = "send"
    ELSE /\ lpc' = "sleep"
         /\ UNCHANGED <<currentlyPlaying, out>>

\* one round of the for loop up to its serverRequest or its sleep
Poll(x) ==
    /\ lpc = "poll"
    /\ npolls < MaxPolls
    /\ npolls' = npolls + 1
    /\ lresp' = Ref(x)
    /\ heard' = IF FetchFails(x) \/ Undecodable(x) THEN heard
                ELSE Append(heard, x.payload)
    /\ Round(x)
    /\ UNCHANGED <<store, lock, hub, pc, locals, status, effects, client, socket,
                   clock, calls>>

\* the rounds after the MaxPolls first: the loop has no end, and
\* ListenBrainz goes on answering what it answered last
Again(x) ==
    /\ lpc = "poll"
    /\ npolls = MaxPolls
    /\ x.kind = "payload"
    /\ heard # <<>>
    /\ x.payload = heard[Len(heard)]
    /\ lresp' = Ref(x)
    /\ Round(x)
    /\ UNCHANGED <<store, lock, hub, pc, locals, status, effects, client, socket,
                   clock, calls, heard, npolls>>

\* currentlyPlaying = nil after "clear-listening"
ForgetNever(path, c) == c

Forget(path, c) == IF path = ClearPath THEN Nil ELSE c

\* serverRequest: client.Do(req) reaches the server
Send(h) ==
    /\ lpc = "send"
    /\ Quiet
    /\ Arrive(h, Deref(out), Snapshot)
    /\ calls' = Append(calls, Call(Deref(out)))
    /\ lpc' = "await"
    /\ UNCHANGED <<client, currentlyPlaying, lresp, out, clock, heard, npolls>>

\* serverRequest: client.Do(req) fails before it reaches the server:
\* log.Fatalf
SendFails ==
    /\ lpc = "send"
    /\ calls' = Append(calls, Call(Deref(out)))
    /\ lpc' = "exited"
    /\ UNCHANGED <<store, lock, hub, pc, locals, status, effects, client, socket,
                   currentlyPlaying, lresp, out, clock, heard, npolls>>

\* serverRequest: the response, of any status, or the error of client.Do
\* when the handler closed the connection without one: log.Fatalf; after
\* "clear-listening" the client forgets what it set
Answer(h) ==
    /\ lpc = "await"
    /\ pc[h] = "done"
    /\ out' = Nil
    /\ IF status[h] = Aborted
       THEN /\ lpc' = "exited"
            /\ UNCHANGED currentlyPlaying
       ELSE /\ lpc' = "sleep"
            /\ currentlyPlaying' = Forget(Deref(out).path, currentlyPlaying)
    /\ UNCHANGED <<store, lock, hub, pc, locals, status, effects, client, socket,
                   lresp, clock, calls, heard, npolls>>

\* sleep(): time.Sleep of the poll interval, then the next round
Sleep(t) ==
    /\ lpc = "sleep"
    /\ t >= clock
    /\ clock' = t
    /\ lpc' = "poll"
    /\ lresp' = Nil
    /\ UNCHANGED <<store, lock, hub, pc, locals, status, effects, client, socket,
                   currentlyPlaying, out, calls, heard, npolls>>

\* the next round starts once the server is at rest
Wake(t) == Quiet /\ Sleep(t)

\* another producer of well-formed events has sent its events before the
\* first round of the client, which finds the store in any state the
\* server can be in
Rival(h, r) == npolls = 0 /\ ReceiveSeq(h, r)

\* the handler returns once the client has its response
Release(h) == lpc # "await" /\ Return(h)

\* the client and the other producer push to the server, which handles
\* the requests one after the other
NextLoop ==
    \/ \E x \in Samples : Poll(x)
    \/ \E h \in Handlers : Send(h)
    \/ SendFails
    \/ \E h \in Handlers : Answer(h)
    \/ \E t \in Times : Wake(t)
    \/ \E h \in Handlers, r \in Complete : Rival(h, r)
    \/ \E h \in Handlers : Work(h)
    \/ \E h \in Handlers : Release(h)

SpecLoop == Init /\ [][NextLoop]_vars

\* the same, with the server running on: a handler that can take a step
\* takes it, and returns when it is done; nothing makes a producer send
SpecLoopFair ==
    /\ SpecLoop
    /\ WF_vars(\E h \in Handlers : Work(h))
    /\ WF_vars(\E h \in Handlers : Release(h))

\* the process is started again after it has ended: pollListenbrainz
\* begins with currentlyPlaying nil, whatever the server shows
Restart ==
    /\ lpc = "exited"
    /\ npolls < MaxPolls
    /\ lpc' = "poll"
    /\ currentlyPlaying' = Nil
    /\ lresp' = Nil
    /\ out' = Nil
    /\ UNCHANGED <<store, lock, hub, pc, locals, status, effects, client, socket,
                   clock, calls, heard, npolls>>

\* the client is the only producer, runs without end and is started again
\* when it has ended
NextRestart ==
    \/ \E x \in Samples : Poll(x)
    \/ \E x \in Samples : Again(x)
    \/ \E h \in Handlers : Send(h)
    \/ SendFails
    \/ \E h \in Handlers : Answer(h)
    \/ \E t \in Times : Wake(t)
    \/ Restart
    \/ \E h \in Handlers : Work(h)
    \/ \E h \in Handlers : Release(h)

SpecRestart == Init /\ [][NextRestart]_vars

\* the same, with the server and the client running on: a handler that can
\* take a step takes it, and a client that has not ended takes the next
\* step of its loop; nothing makes anyone start it again
SpecRestartFair ==
    /\ SpecRestart
    /\ WF_vars(\E h \in Handlers : Work(h))
    /\ WF_vars(\E h \in Handlers : Release(h))
    /\ WF_vars(\E x \in Samples : Poll(x) \/ Again(x))
    /\ WF_vars((\E h \in Handlers : Send(h)) \/ SendFails)
    /\ WF_vars(\E h \in Handlers : Answer(h))
    /\ WF_vars(\E t \in Times : Wake(t))

TypeOK ==
    /\ lock \in {0} \cup Handlers
    /\ sessions \subseteq Sessions
    /\ \A s \in Sessions : Len(inbox[s]) <= MaxInbox
    /\ \A h \in Handlers : req[h] \in Requests \cup LoopRequests \cup {NoRequest}
    /\ lpc \in {"poll", "send", "await", "sleep", "exited"}
    /\ clock \in Times
    /\ npolls \in 0..MaxPolls

\* ------------------------------------------------------------ properties
\* event time t is not before last_event_time ts; nothing is before the
\* first event
NotBefore(t, ts) == IF ts = Nil THEN TRUE ELSE t >= Deref(ts)

Finished(h) == pc[h] = "done"

FinishedSet(h) == Finished(h) /\ req[h].path = SetPath /\ cur[h] # Nil

FinishedClear(h) == Finished(h) /\ req[h].path = ClearPath /\ cur[h] # Nil

\* a handler run alone changes the store as Handle says (SpecSeq)
HandleAgrees ==
    \A h \in Handlers : Finished(h) => Snapshot = Handle(pre[h], req[h])

\* C1: requests handled one after the other.  A /set-listening request
\* whose body decodes replaces the record by its own, sets is_playing and
\* sets last_event_time to started_at exactly when, at its arrival, the
\* store held no record or started_at >= last_event_time; otherwise it is
\* answered 400, the store is as it was and nothing was broadcast.
C1_SetAdmission ==
    \A h \in Handlers : FinishedSet(h) =>
        LET c == Deref(cur[h]) IN
        IF pre[h].song = Nil \/ NotBefore(c.StartedAt, pre[h].ts)
        THEN /\ currentlyListeningSong = Ref(c)
             /\ isCurrentlyPlaying = TRUE
             /\ currentTimeStamp = Ref(c.StartedAt)
             /\ status[h] # StatusBadRequest
        ELSE /\ status[h] = StatusBadRequest
             /\ Snapshot = pre[h]
             /\ writes[h] = 0
             /\ sent[h] = 0

\* C1 witness: a set older than the playing record has been refused, and
\* the store still plays that record
C1_Witness ==
    \E h \in Handlers :
        /\ FinishedSet(h)
        /\ pre[h].song # Nil
        /\ ~NotBefore(Deref(cur[h]).StartedAt, pre[h].ts)
        /\ status[h] = StatusBadRequest
        /\ isCurrentlyPlaying

\* C2: requests handled one after the other.  A /clear-listening request
\* whose body decodes removes the record, resets is_playing and sets
\* last_event_time to ended_at exactly when, at its arrival, ended_at >=
\* last_event_time, playing or not; otherwise it is answered 400, the store
\* is as it was and nothing was broadcast.
C2_ClearAdmission ==
    \A h \in Handlers : FinishedClear(h) =>
        LET c == Deref(cur[h]) IN
        IF NotBefore(c.EndedAt, pre[h].ts)
        THEN /\ currentlyListeningSong = Nil
             /\ isCurrentlyPlaying = FALSE
             /\ currentTimeStamp = Ref(c.EndedAt)
             /\ status[h] = StatusOK
             /\ sent[h] = 1
        ELSE /\ status[h] = StatusBadRequest
             /\ Snapshot = pre[h]
             /\ writes[h] = 0
             /\ sent[h] = 0

\* C2 witness: the store was already cleared, and an older clear has been
\* refused
C2_Witness ==
    \E h \in Handlers :
        /\ FinishedClear(h)
        /\ pre[h].song = Nil
        /\ pre[h].ts # Nil
        /\ Deref(cur[h]).EndedAt < Deref(pre[h].ts)
        /\ status[h] = StatusBadRequest
        /\ ~isCurrentlyPlaying

Timed(h) == Finished(h) /\ cur[h] # Nil

TimeAt(h) == EventTime(req[h].path, Deref(cur[h]))

\* C3: requests handled one after the other.  A set or clear whose event
\* time is strictly less than last_event_time at its arrival is answered
\* 400, leaves the store as it was and broadcasts nothing.
C3_StaleNeverAdmitted ==
    \A h \in Handlers :
        (Timed(h) /\ pre[h].ts # Nil /\ TimeAt(h) < Deref(pre[h].ts)) =>
            /\ status[h] = StatusBadRequest
            /\ Snapshot = pre[h]
            /\ sent[h] = 0

\* C4: last_event_time never decreases
C4_TimeNeverDecreases ==
    [][currentTimeStamp # Nil =>
          /\ currentTimeStamp' # Nil
          /\ Deref(currentTimeStamp') >= Deref(currentTimeStamp)]_vars

\* C5: requests handled one after the other, event times non-decreasing.
\* Every request that carries an event time is admitted: it makes its
\* three writes and its broadcast, and is not answered 400; and whenever no
\* handler is running the store is what the latest such request alone
\* writes: its record, playing and started_at for a set, no record, not
\* playing and ended_at for a clear.
C5_InOrderLastWins ==
    /\ \A h \in Handlers : Timed(h) =>
          /\ status[h] \in {StatusOK, Aborted}
          /\ writes[h] = 3
          /\ sent[h] = 1
    /\ (Busy = {} /\ lastSent # Nil) =>
          LET r == Deref(lastSent)
              body == Deref(r.body)
          IN  IF r.path = SetPath
              THEN /\ currentlyListeningSong # Nil
                   /\ Deref(currentlyListeningSong).Artist = body.artist
                   /\ Deref(currentlyListeningSong).Album = body.album
                   /\ Deref(currentlyListeningSong).Title = body.title
                   /\ Deref(currentlyListeningSong).StartedAt = body.started_at
                   /\ isCurrentlyPlaying
                   /\ currentTimeStamp = Ref(body.started_at)
              ELSE /\ currentlyListeningSong = Nil
                   /\ ~isCurrentlyPlaying
                   /\ currentTimeStamp = Ref(body.ended_at)

\* C5 witness: a request with the event time of the request before it has
\* replaced what that one wrote
C5_Witness ==
    \E h \in Handlers :
        /\ Timed(h)
        /\ pre[h].ts = Ref(TimeAt(h))
        /\ pre[h] # Snapshot
        /\ status[h] = StatusOK

\* C6: two requests handled from the same store (the store before both
\* of them), once both are handled, leave the store as one of their two
\* sequential orders does
C6_AtomicAdmission ==
    \A h, g \in Handlers :
        (h # g /\ Finished(h) /\ Finished(g) /\ pre[h] = pre[g]) =>
            \/ Snapshot = Handle(Handle(pre[h], req[h]), req[g])
            \/ Snapshot = Handle(Handle(pre[h], req[g]), req[h])

TimedRequests == {r \in Requests : CarriesTime(r)}

\* C7: from the store as it is when no handler runs, two events with
\* distinct event times handled in either order leave the same store, the
\* one the event with the larger event time writes
C7_OrderIndependent ==
    Busy = {} =>
        \A r1, r2 \in TimedRequests :
            TimeOf(r1) < TimeOf(r2) =>
                /\ Handle(Handle(Snapshot, r1), r2) = Handle(Handle(Snapshot, r2), r1)
                /\ Handle(Handle(Snapshot, r1), r2)
                      = Written(r2.path, Decode(r2.path, Deref(r2.body)))

\* the store already holds the record of the set that h served: an
\* identical set was admitted and nothing has been admitted since
Resubmitted(h) ==
    /\ FinishedSet(h)
    /\ pre[h].song = cur[h]
    /\ pre[h].playing

\* C8 as stated: requests handled one after the other.  The second of two
\* identical sets is answered 400 and broadcasts nothing.
C8_SecondSetRejected ==
    \A h \in Handlers : Resubmitted(h) =>
        /\ status[h] = StatusBadRequest
        /\ sent[h] = 0

\* C8 as amended: requests handled one after the other.  The second of
\* two identical sets is admitted again: it is not answered 400, the store
\* is as the first left it, and the same envelope is broadcast once more.
C8_SecondSetReadmitted ==
    \A h \in Handlers : Resubmitted(h) =>
        /\ status[h] # StatusBadRequest
        /\ writes[h] = 3
        /\ Snapshot = pre[h]
        /\ sent[h] = 1
        /\ sendBody[h] = Ref(CurrentlyListeningJSON(cur[h], TRUE))

\* C8 witness: an identical set has been handled a second time while a
\* session was listening, and the session got its envelope
C8_Witness ==
    \E h \in Handlers, s \in sessions :
        /\ Resubmitted(h)
        /\ sent[h] = 1
        /\ Len(inbox[s]) >= 1
        /\ inbox[s][Len(inbox[s])] = Deref(sendBody[h])

\* the handlers that finish an admitted request in this step
Admitting ==
    {h \in Handlers : pc[h] # "done" /\ pc'[h] = "done" /\ writes'[h] > 0}

\* C9: a step in which an admitted set or clear finishes appends one and
\* the same currently-listening envelope to the inbox of every registered
\* session and to no other; a step in which none finishes delivers
\* nothing to the sessions that stay registered.
C9_OneEnvelopePerAdmission ==
    [][IF Admitting = {}
       THEN \A s \in sessions \cap sessions' : inbox'[s] = inbox[s]
       ELSE \E h \in Admitting :
              /\ Deref(sendBody[h]).msg_type = "currently-listening"
              /\ sent'[h] = 1
              /\ \A s \in sessions : inbox'[s] = Append(inbox[s], Deref(sendBody[h]))
              /\ \A s \in Sessions \ sessions : inbox'[s] = <<>>]_vars

\* C9 witness: two admissions have finished while both sessions were
\* registered, and each session holds the same two envelopes
C9_Witness ==
    /\ sessions = Sessions
    /\ \A s \in Sessions : Len(inbox[s]) = 2
    /\ \A s, t \in Sessions : inbox[s] = inbox[t]
    /\ \E h \in Handlers : Finished(h) /\ sent[h] = 1

BadMethod(r) == r.method # "POST"

BadCredential(r) == r.password # Password

\* C10: a request with another method than POST, with a missing or wrong
\* password or with a body that does not decode is answered 405, 401 or
\* 500 on arrival, writes nothing to the store and broadcasts nothing; one
\* refused for its method or password is refused whatever its body is,
\* and its body is never decoded.
C10_RefusedUntouched ==
    \A h \in Handlers : pc[h] # "idle" =>
        /\ (BadMethod(req[h]) \/ BadCredential(req[h]) \/ req[h].body = Malformed) =>
              /\ Finished(h)
              /\ status[h] \in {StatusMethodNotAllowed, StatusUnauthorized,
                                StatusInternalServerError}
              /\ writes[h] = 0
              /\ sent[h] = 0
              /\ cur[h] = Nil
        /\ (BadMethod(req[h]) \/ BadCredential(req[h])) =>
              status[h] \in {StatusMethodNotAllowed, StatusUnauthorized}

\* C10 witness: a song is playing and a clear with a wrong password, whose
\* body would decode, has been refused
C10_Witness ==
    \E h \in Handlers :
        /\ Finished(h)
        /\ BadCredential(req[h])
        /\ req[h].body # Malformed
        /\ status[h] = StatusUnauthorized
        /\ isCurrentlyPlaying
        /\ currentlyListeningSong # Nil

\* the outcome a finished request is to report: the refusal of its shape,
\* else 400 when it was refused as stale, else success
Outcome(h) ==
    IF BadMethod(req[h]) THEN StatusMethodNotAllowed
    ELSE IF BadCredential(req[h]) THEN StatusUnauthorized
    ELSE IF req[h].body = Malformed THEN StatusBadRequest
    ELSE IF writes[h] = 0 THEN StatusBadRequest
    ELSE StatusOK

\* C11: a finished request reports 405 for another method than POST, 401
\* for a bad password, 400 for a body that does not decode, 400 when it was
\* refused as stale, and success otherwise.
C11_ReportedOutcome ==
    \A h \in Handlers : Finished(h) => status[h] = Outcome(h)

\* C12: a finished request that wrote the store has answered its caller
\* with success, whatever the image of its record is.
C12_AdmittedSucceeds ==
    \A h \in Handlers : (Finished(h) /\ writes[h] > 0) => status[h] = StatusOK

\* the frames the sessions have been sent
Envelopes ==
    UNION {{inbox[s][i] : i \in 1..Len(inbox[s])} : s \in Sessions}

\* C13: in every currently-listening envelope a session has been sent,
\* pulled or broadcast, song is null exactly when playing is false.
C13_SongIffPlaying ==
    \A f \in Envelopes :
        IF f.msg_type = "currently-listening"
        THEN (f.data.song = Nil) <=> ~f.data.playing
        ELSE TRUE

\* the steps of handler h that read the store, and those that write it
ReadsStore(h) ==
    /\ pc[h] \in {"checkSong", "checkTime", "readSong", "readPlaying"}
    /\ pc'[h] # pc[h]

WritesStore(h) ==
    /\ pc[h] \in {"lock", "writeTime", "writePlaying"}
    /\ pc'[h] # pc[h]

\* the steps of the callback of session s that read the store
PullReadsStore(s) ==
    /\ wpc[s] \in {"idle", "readPlaying"}
    /\ wpc'[s] \notin {wpc[s], "idle"}

\* HandleMessage never takes the lock, shared or exclusive
HoldsShared(s) == FALSE

\* C15: every step that reads or writes the record, is_playing or
\* last_event_time is taken by a handler or callback that holds the lock.
C15_AccessUnderLock ==
    [][/\ \A h \in Handlers : ReadsStore(h) => lock = h
       /\ \A h \in Handlers : WritesStore(h) => (lock = h \/ lock' = h)
       /\ \A s \in Sessions : PullReadsStore(s) => HoldsShared(s)]_vars

\* the callback of session s writes its answer in this step
Answers(s) == wpc[s] = "write" /\ wpc'[s] = "idle" /\ s \in sessions'

\* the callback of session s takes another step
Gathers(s) == wpc'[s] # wpc[s] /\ wpc[s] # "write" /\ s \in sessions'

\* C14: the callback of a "currently-listening" message sends one
\* currently-listening envelope, to the session that sent the message and
\* to no other, in its last step and nothing before, and never changes the
\* store; the envelope carries the song and playing of the store when the
\* store was not written while the callback ran, so song = R and playing
\* = true after an admitted set of R that nothing followed.
C14_PullAnswersSender ==
    [][\A s \in Sessions :
         /\ Answers(s) =>
              LET f == Deref(wbody[s]) IN
              /\ f.msg_type = "currently-listening"
              /\ inbox'[s] = Append(inbox[s], f)
              /\ \A t \in Sessions \ {s} : inbox'[t] = inbox[t]
              /\ Snapshot' = Snapshot
              /\ s \notin wdirty =>
                   f = CurrentlyListeningJSON(currentlyListeningSong,
                                              isCurrentlyPlaying)
         /\ Gathers(s) => (inbox' = inbox /\ Snapshot' = Snapshot)]_vars

\* C14 witness: a set of R on a store without record has been admitted and
\* broadcast to both sessions, and one of them has then asked and got the
\* envelope of R, playing, once more while the other got nothing
C14_Witness ==
    \E h \in Handlers, s, t \in Sessions :
        /\ s # t
        /\ sessions = Sessions
        /\ Finished(h)
        /\ pre[h].song = Nil
        /\ sent[h] = 1
        /\ Deref(sendBody[h]).data.song # Nil
        /\ Deref(sendBody[h]).data.playing
        /\ inbox[s] = <<Deref(sendBody[h]), Deref(sendBody[h])>>
        /\ inbox[t] = <<Deref(sendBody[h])>>

\* the payload that lists listen l as playing now
Playing(l) == [playing_now |-> TRUE, count |-> 1, listens |-> <<l>>]

\* every payload decoded so far lists the same listen as playing now
SameTrack == \E l \in Listens : \A i \in 1..Len(heard) : heard[i] = Playing(l)

SetCalls == {i \in 1..Len(calls) : calls[i][1] = SetPath}

ClearCalls == {i \in 1..Len(calls) : calls[i][1] = ClearPath}

\* C16: as long as every payload the client has decoded lists the same
\* (artist, album, title) as playing, the client has made at most one
\* set-listening call and no clear-listening call.
C16_SameTrackOneSet ==
    SameTrack => (Cardinality(SetCalls) <= 1 /\ ClearCalls = {})

\* C16 witness: the client has decoded the same track twice, its one set
\* was answered, and the second round made no call
C16_Witness ==
    /\ Len(heard) = 2
    /\ SameTrack
    /\ calls = <<Call(SetRequest(NewListening(heard[1].listens[1], 1)))>>
    /\ lpc = "sleep"
    /\ currentlyPlaying # Nil

ListenA == Listen("a1", "b1", "t1")

NothingPlaying == [playing_now |-> TRUE, count |-> 0, listens |-> <<>>]

\* the client has dealt with what it polled last
Settled == lpc \in {"poll", "sleep", "exited"}

\* the client has stopped on its upstream or on its network, not on the
\* server
StoppedOutside ==
    /\ lpc = "exited"
    /\ \/ lresp # Nil /\ Deref(lresp).kind \in {"garbage", "null"}
       \/ out # Nil

\* C17: for the payloads [track A], [nothing playing], [track A] the
\* client makes the calls set-listening(A), clear-listening,
\* set-listening(A), one per payload and in this order, and keeps running
\* after each.
C17_SetClearSet ==
    LET samples == <<Playing(ListenA), NothingPlaying, Playing(ListenA)>>
        expected == <<Call(SetRequest(NewListening(ListenA, 1))),
                      Call(ClearRequest(1)),
                      Call(SetRequest(NewListening(ListenA, 1)))>>
        n == Len(heard)
    IN  (/\ n <= 3
         /\ heard = SubSeq(samples, 1, n)
         /\ Settled
         /\ ~StoppedOutside) =>
            /\ calls = SubSeq(expected, 1, n)
            /\ lpc # "exited"

\* this step is a round of the client that decodes payload p
Decodes(p) ==
    /\ lpc = "poll"
    /\ lresp' = Ref([kind |-> "payload", payload |-> p])

\* the (artist, album, title) of record c is not that of listen l
Differs(c, l) ==
    <<c.Artist, c.Album, c.Title>> #
        <<l.track_metadata.artist_name, l.track_metadata.release_name,
          l.track_metadata.track_name>>

\* C18: a round that decodes a payload listing l as playing, while the
\* client has set nothing or a record that differs from l in at least one
\* of artist, album and title, sends set-listening for l and makes l what
\* the client has set.
C18_ChangeIsSet ==
    [][\A l \in Listens :
         (/\ Decodes(Playing(l))
          /\ IF currentlyPlaying = Nil THEN TRUE
             ELSE Differs(Deref(currentlyPlaying), l)) =>
            /\ lpc' = "send"
            /\ out' = Ref(SetRequest(NewListening(l, clock)))
            /\ currentlyPlaying' = Ref(NewListening(l, clock))]_vars

\* this step is a round of the client that gets sample x
Gets(x) == lpc = "poll" /\ lresp' = Ref(x)

\* this step is the return of serverRequest("clear-listening")
ClearReturns ==
    /\ lpc = "await"
    /\ lpc' = "sleep"
    /\ Deref(out).path = ClearPath

\* C19: a round that decodes a payload listing nothing sends
\* clear-listening when the client has set a record, and the client has
\* set nothing once that call returns; it sends nothing and goes to sleep
\* when the client has set nothing.  A call sent is one call, and no two
\* clear-listening calls follow each other.
C19_ClearOnce ==
    [][/\ \A p \in Payloads :
            (Decodes(p) /\ Len(p.listens) = 0) =>
                IF currentlyPlaying # Nil
                THEN /\ lpc' = "send"
                     /\ out' = Ref(ClearRequest(clock))
                     /\ calls' = calls
                ELSE /\ lpc' = "sleep"
                     /\ out' = Nil
                     /\ calls' = calls
       /\ (lpc = "send" /\ lpc' # "send") =>
            calls' = Append(calls, Call(Deref(out)))
       /\ ClearReturns => currentlyPlaying' = Nil
       /\ \A i \in 1..(Len(calls') - 1) :
            ~(calls'[i][1] = ClearPath /\ calls'[i + 1][1] = ClearPath)]_vars

\* C19 witness: the client has set a track, cleared it on a payload
\* listing nothing, and made no call on the next such payload
C19_Witness ==
    /\ Len(calls) = 2
    /\ calls[1][1] = SetPath
    /\ calls[2][1] = ClearPath
    /\ Len(heard) = 3
    /\ Len(heard[2].listens) = 0
    /\ Len(heard[3].listens) = 0
    /\ currentlyPlaying = Nil
    /\ lpc = "sleep"

\* C20: a round whose fetch fails, by a transport error or by a status
\* other than 200, leaves what the client has set as it is, sends nothing,
\* changes nothing at the server and goes to sleep; the client leaves its
\* sleep for the next round only.
C20_UpstreamErrorSkips ==
    [][/\ \A x \in Samples :
            (Gets(x) /\ x.kind \in {"error", "status"}) =>
                /\ currentlyPlaying' = currentlyPlaying
                /\ out' = Nil
                /\ calls' = calls
                /\ lpc' = "sleep"
                /\ Snapshot' = Snapshot
                /\ inbox' = inbox
       /\ (lpc = "sleep" /\ lpc' # "sleep") =>
            /\ lpc' = "poll"
            /\ currentlyPlaying' = currentlyPlaying
            /\ calls' = calls]_vars

\* C20 witness: the client has set a track, a later fetch has failed with
\* a status other than 200, and the client sleeps with the track still set
\* and that one call made
C20_Witness ==
    /\ lpc = "sleep"
    /\ lresp = Ref([kind |-> "status", payload |-> ZeroPayload])
    /\ currentlyPlaying # Nil
    /\ Len(calls) = 1
    /\ Len(heard) = 1
    /\ npolls = 2

\* the client has left pollListenbrainz on a response it could not decode
HaltedOnDecode ==
    /\ lpc = "exited"
    /\ lresp # Nil
    /\ Deref(lresp).kind \in {"garbage", "null"}

\* C21: a round whose response does not decode, or decodes to null, ends
\* the client: it sends nothing, what it has set and the server are as
\* they were, whether or not it has set a record; and a client that has
\* ended makes no further step.
C21_MalformedHalts ==
    [][/\ \A x \in Samples :
            (Gets(x) /\ x.kind \in {"garbage", "null"}) =>
                /\ lpc' = "exited"
                /\ calls' = calls
                /\ out' = out
                /\ currentlyPlaying' = currentlyPlaying
                /\ heard' = heard
                /\ Snapshot' = Snapshot
                /\ inbox' = inbox
       /\ lpc = "exited" => loop' = loop]_vars

\* C21 witness: the client has set a track, the next response did not
\* decode, and the client has ended with the track set, that one call
\* made and the server still playing
C21_Witness ==
    /\ HaltedOnDecode
    /\ Deref(lresp).kind = "garbage"
    /\ currentlyPlaying # Nil
    /\ Len(calls) = 1
    /\ calls[1][1] = SetPath
    /\ isCurrentlyPlaying

\* this step is a serverRequest whose request does not reach the server
SendLost == lpc = "send" /\ lpc' # "send" /\ pc' = pc

\* this step is a serverRequest whose connection is closed before a
\* response can be read
ResponseLost ==
    /\ lpc = "await"
    /\ lpc' # "await"
    /\ \E h \in Handlers : pc[h] = "done" /\ status[h] = Aborted

\* C22: a serverRequest whose request cannot be sent, or whose response
\* cannot be read, does not end the client: the client goes to sleep and
\* on to its next round.
C22_PushErrorNonFatal ==
    [][(SendLost \/ ResponseLost) => lpc' = "sleep"]_vars

\* this step is the return of a serverRequest that handler h answered
\* with 400
Refused(h) ==
    /\ lpc = "await"
    /\ lpc' # "await"
    /\ pc[h] = "done"
    /\ status[h] = StatusBadRequest

\* C23: when the server answers the set-listening of a record with 400,
\* that record is not what the client has set once serverRequest returns;
\* when it answers a clear-listening with 400, what the client has set is
\* as it was before the call.
C23_BeliefIsLastAccepted ==
    [][\A h \in Handlers : Refused(h) =>
          IF Deref(out).path = SetPath
          THEN MarshalSong(currentlyPlaying') # Deref(out).body
          ELSE currentlyPlaying' = currentlyPlaying]_vars

\* the statuses of a request that was refused before it wrote anything
Refusals ==
    {StatusMethodNotAllowed, StatusUnauthorized, StatusInternalServerError,
     StatusBadRequest}

\* the request before the one h serves was admitted and then failed: the
\* store held its record, whose image is too short for the success message
AfterAbort(h) == pre[h].song # Nil /\ ~SliceInRange(Deref(pre[h].song))

\* C25: requests handled one after the other.  When a request has
\* finished, however it ended, the lock is free; a request refused for its
\* method, password, body or event time has left the store as it was; and
\* a request whose body decodes and whose event time is not before
\* last_event_time at its arrival, whatever the requests before it came
\* to, has made its three writes and its broadcast and is not answered
\* 400.
C25_FailuresStayLocal ==
    \A h \in Handlers : Finished(h) =>
        /\ lock = 0
        /\ status[h] \in Refusals => (Snapshot = pre[h] /\ writes[h] = 0)
        /\ (cur[h] # Nil /\ NotBefore(TimeAt(h), pre[h].ts)) =>
              /\ writes[h] = 3
              /\ sent[h] = 1
              /\ status[h] \in {StatusOK, Aborted}
              /\ Snapshot = Written(req[h].path, Deref(cur[h]))

\* C25 witness: a set failed after its admission, and the clear that
\* followed it with the same event time has been admitted, broadcast and
\* answered with success
C25_Witness ==
    \E h \in Handlers :
        /\ FinishedClear(h)
        /\ AfterAbort(h)
        /\ pre[h].ts = Ref(TimeAt(h))
        /\ status[h] = StatusOK
        /\ sent[h] = 1
        /\ currentlyListeningSong = Nil
        /\ lock = 0

\* C26: when the client has ended without a clear-listening while the
\* store shows playing, and so no event is admitted any more, the server
\* running on clears the store by itself: the store does not show playing
\* for ever.
C26_StaleFallback ==
    (lpc = "exited" /\ isCurrentlyPlaying) ~> ~isCurrentlyPlaying

\* where a handler is between lock.Lock() and lock.Unlock()
Locked == {"writeTime", "writePlaying"}

\* C27: a handler holds the lock only between its first and its last
\* write of the store, where nothing can block it, so it can always go on
\* to its unlock; a handler that serialises, broadcasts or answers, and a
\* handler that has returned, does not hold it.
C27_LockScope ==
    /\ lock \in {0} \cup Handlers
    /\ \A h \in Handlers :
          /\ lock = h <=> pc[h] \in Locked
          /\ lock = h => ENABLED (WriteTime(h) \/ WritePlaying(h))
          /\ pc[h] \in {"readSong", "readPlaying", "broadcast", "done"} => lock # h

\* C27 witness: a handler has made its writes, called Broadcast and
\* answered while the other handler was holding the lock for its own
\* writes
C27_Witness ==
    \E h, g \in Handlers :
        /\ h # g
        /\ Finished(h)
        /\ writes[h] = 3
        /\ sent[h] = 1
        /\ status[h] = StatusOK
        /\ lock = g
        /\ pc[g] \in Locked

\* this step writes the answer of the callback of session s to it
OwnAnswer(s) ==
    \/ wpc[s] = "write" /\ wpc'[s] = "idle"
    \/ wpc[s] = "idle" /\ wpc'[s] = "idle" /\ pc' = pc
         /\ inbox'[s] = Append(inbox[s], PongJSON)

\* this step is the broadcast of a request that wrote the store
AdmittedBroadcast ==
    \E h \in Handlers : pc[h] = "broadcast" /\ pc'[h] = "done" /\ writes[h] = 3

\* C28: a session that connects has received nothing, whatever the store
\* holds; and a connected session receives a frame only in a step that
\* answers its own "currently-listening" or "ping", or in the broadcast
\* of a request that wrote the store.
C28_NoReplay ==
    [][\A s \in Sessions :
         /\ (s \notin sessions /\ s \in sessions') => inbox'[s] = <<>>
         /\ (s \in sessions /\ s \in sessions' /\ inbox'[s] # inbox[s]) =>
               (OwnAnswer(s) \/ AdmittedBroadcast)]_vars

\* C28 witness: a set was admitted and broadcast to the session connected
\* then; the other session has connected since, no request is running,
\* the store shows the record playing, and the new session has received
\* nothing
C28_Witness ==
    \E s, t \in Sessions :
        /\ sessions = {s, t}
        /\ s # t
        /\ Quiet
        /\ isCurrentlyPlaying
        /\ currentlyListeningSong # Nil
        /\ inbox[t] = <<CurrentlyListeningJSON(currentlyListeningSong, TRUE)>>
        /\ inbox[s] = <<>>
        /\ wpc[s] = "idle"

\* this step handles an unknown message of session s
Ignores(s) == stray'[s] # stray[s] /\ s \in sessions'

\* C29: a step that handles a message other than "currently-listening"
\* and "ping" writes no frame to any session, leaves the sessions
\* registered as they are and the store and the handlers as they were;
\* and the broadcast of a request that wrote the store also reaches, with
\* its envelope, every registered session that has sent such a message.
C29_UnknownIgnored ==
    [][/\ \A s \in Sessions : Ignores(s) =>
            /\ inbox' = inbox
            /\ sessions' = sessions
            /\ Snapshot' = Snapshot
            /\ pc' = pc
            /\ lock' = lock
       /\ \A h \in Handlers :
            (pc[h] = "broadcast" /\ pc'[h] = "done") =>
                \A s \in sessions : stray[s] # Nil =>
                    inbox'[s] = Append(inbox[s], Deref(sendBody[h]))]_vars

\* C29 witness: a session sent an unknown message when it had received
\* nothing, is still registered, and has since received the envelope of a
\* set admitted after that
C29_Witness ==
    \E s \in sessions, h \in Handlers :
        /\ stray[s] = Ref(0)
        /\ Finished(h)
        /\ sent[h] = 1
        /\ inbox[s] = <<Deref(sendBody[h])>>
        /\ Deref(sendBody[h]).data.playing
        /\ isCurrentlyPlaying

\* the broadcasts of the requests that have finished and not yet returned
Broadcasts == sent[1] + sent[2]

\* session s has been registered through all of them
Stayed(s) == s \in sessions /\ Broadcasts > 0 /\ Len(inbox[s]) = Broadcasts

\* C30: once no request is being handled, the latest envelope of every
\* session that stayed registered through the broadcasts of the finished
\* requests carries the song and playing of the store.
C30_SubscribersConverge ==
    Busy = {} =>
        \A s \in Sessions :
            Stayed(s) =>
                inbox[s][Len(inbox[s])] =
                    CurrentlyListeningJSON(currentlyListeningSong, isCurrentlyPlaying)

\* payload p lists a listen that is not playing: playing_now is false, or
\* count is 0
ListedNotPlaying(p) == Len(p.listens) > 0 /\ (~p.playing_now \/ p.count = 0)

\* C31: a round that decodes a payload listing a listen that is not
\* playing makes no call and goes to sleep with what the client has set
\* unchanged; and the client forgets what it has set only on the return of
\* a clear-listening call, which a payload listing nothing has caused.
C31_ListedNotPlayingSkipped ==
    [][/\ \A p \in Payloads :
            (Decodes(p) /\ ListedNotPlaying(p)) =>
                /\ lpc' = "sleep"
                /\ currentlyPlaying' = currentlyPlaying
                /\ out' = out
                /\ calls' = calls
                /\ pc' = pc
       /\ (currentlyPlaying # Nil /\ currentlyPlaying' = Nil) =>
                /\ ClearReturns
                /\ Len(heard[Len(heard)].listens) = 0]_vars

\* C31 witness: the client has set a record, and its latest round has
\* decoded a payload listing a listen that is not playing and has gone to
\* sleep: the set is still its only call
C31_Witness ==
    /\ lpc = "sleep"
    /\ lresp # Nil
    /\ Deref(lresp).kind = "payload"
    /\ ListedNotPlaying(Deref(lresp).payload)
    /\ currentlyPlaying # Nil
    /\ Len(calls) = 1
    /\ calls[1][1] = SetPath
    /\ Len(heard) = 2

\* the latest payload the client has decoded lists nothing
HeardNothingLast == heard # <<>> /\ Len(heard[Len(heard)].listens) = 0

\* C32: while the client runs and the payloads it decodes list nothing,
\* a store that shows playing: true comes to show playing: false, also
\* when the record it shows was set by the client before it was started
\* again.
C32_EndToEndClearing ==
    (HeardNothingLast /\ isCurrentlyPlaying /\ lpc # "exited")
        ~> (~isCurrentlyPlaying \/ ~HeardNothingLast \/ lpc = "exited")

====
